---- MODULE Spec2Model ----
(***************************************************************************)
(* Model of stego.py: LSB steganography over an RGB pixel grid.            *)
(*                                                                         *)
(* Python's module-level generator (random.getrandbits / random.seed /     *)
(* random.sample) is one process-wide object.  Its Mersenne Twister is     *)
(* replaced by a 16-bit linear congruential generator with the same        *)
(* interface: a state, a deterministic re-seeding from a byte string,      *)
(* draws that advance the state, and CPython's pool-based sample().        *)
(***************************************************************************)
EXTENDS Integers, Sequences, FiniteSets, TLC

\* ---------------------------------------------------------------- bounds
MaxMsgLen == 1
MaxCalls == 3
MaxConcCalls == 2

Threads == {1, 2}
\* the byte value the messages of thread t are made of
MsgByte == <<65, 190>>

\* ------------------------------------------------------- small utilities
Min(a, b) == IF a < b THEN a ELSE b

RECURSIVE Pow2(_)
Pow2(n) == IF n = 0 THEN 1 ELSE 2 * Pow2(n - 1)

\* Python slice s[a:b] on a list (0-based, clamped to the list's length).
Slice(s, a, b) == SubSeq(s, Min(a, Len(s)) + 1, Min(b, Len(s)))

\* Python list.reverse()
Reverse(s) == [i \in 1..Len(s) |-> s[Len(s) + 1 - i]]

\* v & 0b11111110 on a non-negative value: the low bit is cleared
ClearLow(v) == (v \div 2) * 2

\* v | bit for bit in {0, 1}: only the low bit can change
OrLow(v, bit) == ClearLow(v) + (IF v % 2 = 1 \/ bit = 1 THEN 1 ELSE 0)

\* v & 1
LowBit(v) == v % 2

\* ------------------------------------------------------ bit / byte codec
\* pixels is a function <<x, y>> -> <<r, g, b>>; channel c is element c + 1.
write_bit_sets_channel(pixels, bit, location) ==
    LET x == location[1]
        y == location[2]
        channel == location[3]
        orig == pixels[<<x, y>>]
    IN  [pixels EXCEPT ![<<x, y>>] = [orig EXCEPT ![channel + 1] = bit]]

write_bit(pixels, bit, location) ==
    LET x == location[1]
        y == location[2]
        channel == location[3]
        orig == pixels[<<x, y>>]
        cleared == ClearLow(orig[channel + 1])
    IN  [pixels EXCEPT ![<<x, y>>] = [orig EXCEPT ![channel + 1] = OrLow(cleared, bit)]]

\* while byte > 0: bits.append(byte % 2); byte //= 2
RECURSIVE ByteBits(_)
ByteBits(byte) == IF byte > 0 THEN <<byte % 2>> \o ByteBits(byte \div 2) ELSE <<>>

\* bits += [0] * (8 - len(bits))
PadBits(bits) == bits \o [i \in 1..(8 - Len(bits)) |-> 0]

\* for i, v in enumerate(bits): write_bit(pixels, v, locations[i])
RECURSIVE WriteBits(_, _, _, _)
WriteBits(pixels, bits, locations, i) ==
    IF i >= Len(bits) THEN [pixels |-> pixels, err |-> "", line |-> 0]
    ELSE IF i >= Len(locations) THEN [pixels |-> pixels, err |-> "IndexError", line |-> 28]
    ELSE WriteBits(write_bit(pixels, bits[i + 1], locations[i + 1]), bits, locations, i + 1)

write_byte(pixels, byte, locations) ==
    IF ~(0 <= byte /\ byte <= 255)
    THEN [pixels |-> pixels, err |-> "AssertionError", line |-> 21]
    ELSE WriteBits(pixels, PadBits(ByteBits(byte)), locations, 0)

read_bit(pixels, location) ==
    LET x == location[1]
        y == location[2]
        channel == location[3]
    IN  LowBit(pixels[<<x, y>>][channel + 1])

\* for location in locations: res *= 2; res += read_bit(...)
RECURSIVE ReadBits(_, _, _, _)
ReadBits(pixels, locations, i, res) ==
    IF i > Len(locations) THEN res
    ELSE ReadBits(pixels, locations, i + 1, res * 2 + read_bit(pixels, locations[i]))

read_byte_no_reverse(pixels, locations) ==
    IF Len(locations) # 8
    THEN [val |-> 0, err |-> "AssertionError", line |-> 36]
    ELSE [val |-> ReadBits(pixels, locations, 1, 0), err |-> "", line |-> 0]

read_byte(pixels, locations) ==
    IF Len(locations) # 8
    THEN [val |-> 0, err |-> "AssertionError", line |-> 36]
    ELSE [val |-> ReadBits(pixels, Reverse(locations), 1, 0), err |-> "", line |-> 0]

\* ------------------------------------------------------- capacity model
ChannelLoop(x, y) == [c \in 1..3 |-> <<x, y, c - 1>>]

RECURSIVE YLoop(_, _, _)
YLoop(x, y, h) == IF y >= h THEN <<>> ELSE ChannelLoop(x, y) \o YLoop(x, y + 1, h)

RECURSIVE XLoop(_, _, _)
XLoop(x, w, h) == IF x >= w THEN <<>> ELSE YLoop(x, 0, h) \o XLoop(x + 1, w, h)

RECURSIVE XInnerLoop(_, _, _)
XInnerLoop(x, y, w) == IF x >= w THEN <<>> ELSE ChannelLoop(x, y) \o XInnerLoop(x + 1, y, w)

RECURSIVE YOuterLoop(_, _, _)
YOuterLoop(y, w, h) == IF y >= h THEN <<>> ELSE XInnerLoop(0, y, w) \o YOuterLoop(y + 1, w, h)

valid_spots_y_outer(d) == YOuterLoop(0, d[1], d[2])

\* d = <<image.width, image.height>>
valid_spots(d) == XLoop(0, d[1], d[2])

available(d) == d[1] * d[2] * 3

\* --------------------------------------------- the process-wide generator
NextRng(s) == (s * 25173 + 13849) % 65536

\* random.getrandbits(k), k <= 16: advance the state, return its top k bits
random_getrandbits(s, k) ==
    [val |-> NextRng(s) \div Pow2(16 - k), rng |-> NextRng(s)]

\* random.seed(bytes): the new state depends on the bytes only
random_seed(bytes) ==
    NextRng((bytes[1] + 256 * bytes[2] + 7 * bytes[3] + 1801 * bytes[4]) % 65536)

RECURSIVE bit_length(_)
bit_length(n) == IF n = 0 THEN 0 ELSE 1 + bit_length(n \div 2)

\* Random._randbelow: draw bit_length(n) bits until the value is below n
RECURSIVE randbelow(_, _)
randbelow(s, n) ==
    LET r == random_getrandbits(s, bit_length(n))
    IN  IF r.val < n THEN r ELSE randbelow(r.rng, n)

\* pool loop of random.sample: result[i] = pool[j]; pool[j] = pool[n-i-1]
RECURSIVE SamplePool(_, _, _, _, _, _)
SamplePool(s, pool, n, k, i, result) ==
    IF i >= k THEN [locs |-> result, rng |-> s]
    ELSE LET r == randbelow(s, n - i)
             j == r.val
         IN  SamplePool(r.rng, [pool EXCEPT ![j + 1] = pool[n - i]], n, k, i + 1,
                        Append(result, pool[j + 1]))

\* random.sample(population, k)
random_sample(s, population, k) ==
    LET n == Len(population)
    IN  IF ~(0 <= k /\ k <= n)
        THEN [locs |-> <<>>, rng |-> s, err |-> "ValueError"]
        ELSE LET r == SamplePool(s, population, n, k, 0, <<>>)
             IN  [locs |-> r.locs, rng |-> r.rng, err |-> ""]

\* seed = [random.getrandbits(8) for i in range(4)]
RECURSIVE SeedBytes(_, _, _)
SeedBytes(s, i, bytes) ==
    IF i >= 4 THEN [bytes |-> bytes, rng |-> s]
    ELSE LET r == random_getrandbits(s, 8)
         IN  SeedBytes(r.rng, i + 1, Append(bytes, r.val))

\* ---------------------------------------------------------- header codec
\* pack("<I", size)
pack(n) ==
    <<n % 256, (n \div 256) % 256, (n \div 65536) % 256, (n \div 16777216) % 256>>

\* unpack("<I", bytes)[0]
unpack(b) == b[1] + 256 * b[2] + 65536 * b[3] + 16777216 * b[4]

\* metadata = b"\x90\xbf" + bytes(seed) + pack("<I", size)
metadata(seedBytes, n) == <<144, 191>> \o seedBytes \o pack(n)

\* for byte in bytes: write_byte(pixels, byte, spots[c:c+8]); c += 8
RECURSIVE WriteBytes(_, _, _, _)
WriteBytes(pixels, bytes, spots, i) ==
    IF i >= Len(bytes) THEN [pixels |-> pixels, err |-> "", line |-> 0]
    ELSE LET w == write_byte(pixels, bytes[i + 1], Slice(spots, 8 * i, 8 * i + 8))
         IN  IF w.err # "" THEN w ELSE WriteBytes(w.pixels, bytes, spots, i + 1)

\* for i in range(n): out.append(read_byte(pixels, spots[c:c+8])); c += 8
\* (c0 is the value of c before the loop)
RECURSIVE ReadLoop(_, _, _, _, _, _)
ReadLoop(pixels, spots, c0, n, i, out) ==
    IF i >= n THEN [bytes |-> out, err |-> "", line |-> 0]
    ELSE LET r == read_byte(pixels, Slice(spots, c0 + 8 * i, c0 + 8 * i + 8))
         IN  IF r.err # "" THEN [bytes |-> <<>>, err |-> r.err, line |-> r.line]
             ELSE ReadLoop(pixels, spots, c0, n, i + 1, Append(out, r.val))

ReadBytes(pixels, spots, c0, n, i) == ReadLoop(pixels, spots, c0, n, i, <<>>)

magic_ok_first_only(m, expected) == expected = 191 \/ m = expected

\* assert magic == 0x90 / assert magic == 0xbf
magic_ok(m, expected) == m = expected

NoHeader == [err |-> "", line |-> 0, seed |-> <<>>, size |-> 0]

\* decode, "Read off metadata": the two magic bytes, seed, size, capacity
read_header(pixels, d) ==
    LET spots == valid_spots(d)
        m0 == read_byte(pixels, Slice(spots, 0, 8))
        m1 == read_byte(pixels, Slice(spots, 8, 16))
        sd == ReadBytes(pixels, spots, 16, 4, 0)
        sz == ReadBytes(pixels, spots, 48, 4, 0)
    IN  IF m0.err # "" THEN [NoHeader EXCEPT !.err = m0.err, !.line = m0.line]
        ELSE IF ~magic_ok(m0.val, 144) THEN [NoHeader EXCEPT !.err = "AssertionError", !.line = 98]
        ELSE IF m1.err # "" THEN [NoHeader EXCEPT !.err = m1.err, !.line = m1.line]
        ELSE IF ~magic_ok(m1.val, 191) THEN [NoHeader EXCEPT !.err = "AssertionError", !.line = 101]
        ELSE IF sd.err # "" THEN [NoHeader EXCEPT !.err = sd.err, !.line = sd.line]
        ELSE IF sz.err # "" THEN [NoHeader EXCEPT !.err = sz.err, !.line = sz.line]
        ELSE IF ~(available(d) > unpack(sz.bytes) * 8 + 64)
             THEN [NoHeader EXCEPT !.err = "AssertionError", !.line = 113]
        ELSE [err |-> "", line |-> 0, seed |-> sd.bytes, size |-> unpack(sz.bytes)]

\* encode's capacity test: available <= size * 8 + 72
not_enough_values(d, n) == available(d) <= n * 8 + 72

\* valid_spots[80:]
candidates(d) == Slice(valid_spots(d), 80, available(d))

\* decode run on its own, with a generator nobody else touches
decode(pixels, d) ==
    LET h == read_header(pixels, d)
        r == random_sample(random_seed(h.seed), candidates(d), h.size * 8 + 1)
        m == ReadBytes(pixels, r.locs, 0, h.size, 0)
    IN  IF h.err # "" THEN [bytes |-> <<>>, err |-> h.err, line |-> h.line]
        ELSE IF r.err # "" THEN [bytes |-> <<>>, err |-> r.err, line |-> 117]
        ELSE m

\* ------------------------------------------------------------------ state
VARIABLES
    image,      \* image[t]: the image the caller of thread t passes in
    dims,       \* dims[t] = <<image.width, image.height>>
    rng,        \* state of the module-level generator, shared by every call
    pc,         \* position of thread t inside encode / decode
    op,         \* "encode", "decode" or "none"
    pixels,     \* the converted copy the call works on (and encode returns)
    message,    \* encode's message argument
    seed,       \* local seed (list of 4 bytes)
    size,       \* local size
    locations,  \* local locations
    result,     \* bytes returned by decode
    err,        \* exception that ended the call, "" if none
    errLine,    \* source line that raised it
    calls,      \* number of calls started
    draws,      \* number of draw operations made on the generator so far
    seededAt,   \* draws when thread t last seeded the generator
    gap,        \* draws made by anyone between t's seeding and t's sampling
    seededWith, \* bytes thread t passed to random.seed in this call
    encRec,     \* how the image t now holds was produced by encode, if it was
    codec       \* byte-codec exerciser: write_byte then read_byte

vars == <<image, dims, rng, pc, op, pixels, message, seed, size, locations,
          result, err, errLine, calls, draws, seededAt, gap, seededWith, encRec, codec>>

\* ------------------------------------------------------------ input sets
DimSet == {<<1, 25>>, <<3, 9>>, <<5, 6>>}
OtherDimSet == {<<5, 6>>}
InitRng == {1, 40503}

\* header bytes found in images that did not come from this run's encode
InitHeaders ==
    { <<144, 191, 1, 2, 3, 4, 0, 0, 0, 0>>,
      <<144, 191, 9, 8, 7, 6, 1, 0, 0, 0>>,
      <<144, 191, 5, 6, 7, 8, 4, 0, 0, 0>>,
      <<144, 190, 1, 2, 3, 4, 0, 0, 0, 0>> }

Coords(d) == (0..(d[1] - 1)) \X (0..(d[2] - 1))

Black(d) == [p \in Coords(d) |-> <<0, 0, 0>>]

Mixed(d) ==
    [p \in Coords(d) |-> <<(37 * p[1] + 11 * p[2] + 200) % 256,
                           (5 * p[1] + 3 * p[2] + 255) % 256,
                           (p[1] + 2 * p[2] + 128) % 256>>]

WithHeader(d, h) == WriteBytes(Mixed(d), h, valid_spots(d), 0).pixels

Images(d) == {Mixed(d)} \cup {WithHeader(d, h) : h \in InitHeaders}

RECURSIVE SeqsUpTo(_, _)
SeqsUpTo(S, n) ==
    IF n = 0 THEN {<<>>}
    ELSE LET shorter == SeqsUpTo(S, n - 1)
         IN  shorter \cup {Append(q, b) : q \in {r \in shorter : Len(r) = n - 1}, b \in S}

Messages(t) == SeqsUpTo({MsgByte[t]}, MaxMsgLen)

NoRec == [ok |-> FALSE, seed |-> <<>>, locs |-> <<>>, msg |-> <<>>, at |-> 0]
IdleCodec == [pc |-> "off", byte |-> 0, locs |-> <<>>, out |-> 0, err |-> ""]

InitCalls ==
    /\ rng \in InitRng
    /\ pc = [t \in Threads |-> "idle"]
    /\ op = [t \in Threads |-> "none"]
    /\ pixels = image
    /\ message = [t \in Threads |-> <<>>]
    /\ seed = [t \in Threads |-> <<>>]
    /\ size = [t \in Threads |-> 0]
    /\ locations = [t \in Threads |-> <<>>]
    /\ result = [t \in Threads |-> <<>>]
    /\ err = [t \in Threads |-> ""]
    /\ errLine = [t \in Threads |-> 0]
    /\ calls = 0
    /\ draws = 0
    /\ seededAt = [t \in Threads |-> 0]
    /\ gap = [t \in Threads |-> 0]
    /\ seededWith = [t \in Threads |-> <<>>]
    /\ encRec = [t \in Threads |-> NoRec]

Init ==
    /\ \E d1 \in DimSet, d2 \in OtherDimSet :
         /\ dims = (1 :> d1) @@ (2 :> d2)
         /\ \E i1 \in Images(d1) : image = (1 :> i1) @@ (2 :> Black(d2))
    /\ InitCalls
    /\ codec = IdleCodec

\* ---------------------------------------------------------------- calls
Ready(t) == pc[t] \in {"idle", "done"}

\* the image the caller hands to the next call: what encode returned last,
\* else the image it already had
Input(t) ==
    IF pc[t] = "done" /\ op[t] = "encode" /\ err[t] = "" THEN pixels[t] ELSE image[t]

Fail(t, e, line) ==
    /\ pc' = [pc EXCEPT ![t] = "done"]
    /\ err' = [err EXCEPT ![t] = e]
    /\ errLine' = [errLine EXCEPT ![t] = line]

Begin(t, o, msg) ==
    /\ Ready(t)
    /\ calls' = calls + 1
    /\ op' = [op EXCEPT ![t] = o]
    /\ image' = [image EXCEPT ![t] = Input(t)]
    /\ pixels' = [pixels EXCEPT ![t] = Input(t)]
    /\ message' = [message EXCEPT ![t] = msg]
    /\ locations' = [locations EXCEPT ![t] = <<>>]
    /\ result' = [result EXCEPT ![t] = <<>>]
    /\ gap' = [gap EXCEPT ![t] = 0]
    /\ seededAt' = [seededAt EXCEPT ![t] = 0]
    /\ seededWith' = [seededWith EXCEPT ![t] = <<>>]
    /\ UNCHANGED <<dims, rng, draws, encRec, codec>>

\* encode, lines 45-53: convert, load, capacity check
EncodeStart(t, msg) ==
    /\ Begin(t, "encode", msg)
    /\ size' = [size EXCEPT ![t] = Len(msg)]
    /\ seed' = [seed EXCEPT ![t] = <<>>]
    /\ IF not_enough_values(dims[t], Len(msg))
       THEN Fail(t, "NotEnoughValuesException", 52)
       ELSE /\ pc' = [pc EXCEPT ![t] = "enc_seed"]
            /\ err' = [err EXCEPT ![t] = ""]
            /\ errLine' = [errLine EXCEPT ![t] = 0]

\* encode, lines 55-58: four bytes from the generator, then seed it with them
encode_seed(s) == SeedBytes(s, 0, <<>>)

EncodeSeed(t) ==
    /\ pc[t] = "enc_seed"
    /\ LET sb == encode_seed(rng)
       IN  /\ seed' = [seed EXCEPT ![t] = sb.bytes]
           /\ rng' = random_seed(sb.bytes)
           /\ seededWith' = [seededWith EXCEPT ![t] = sb.bytes]
    /\ draws' = draws + 4
    /\ seededAt' = [seededAt EXCEPT ![t] = draws + 4]
    /\ pc' = [pc EXCEPT ![t] = "enc_header"]
    /\ UNCHANGED <<image, dims, op, pixels, message, size, locations, result, err,
                   errLine, calls, gap, encRec, codec>>

\* encode, lines 60-72: build valid_spots, write the metadata
EncodeHeader(t) ==
    /\ pc[t] = "enc_header"
    /\ LET w == WriteBytes(pixels[t], metadata(seed[t], size[t]), valid_spots(dims[t]), 0)
       IN  /\ pixels' = [pixels EXCEPT ![t] = w.pixels]
           /\ IF w.err # "" THEN Fail(t, w.err, w.line)
              ELSE /\ pc' = [pc EXCEPT ![t] = "enc_sample"]
                   /\ UNCHANGED <<err, errLine>>
    /\ UNCHANGED <<image, dims, rng, op, message, seed, size, locations, result,
                   calls, draws, seededAt, gap, seededWith, encRec, codec>>

\* line 75 / line 117: locations = random.sample(valid_spots[80:], size * 8 + 1)
Sample(t, next, line) ==
    LET r == random_sample(rng, candidates(dims[t]), size[t] * 8 + 1)
    IN  /\ rng' = r.rng
        /\ locations' = [locations EXCEPT ![t] = r.locs]
        /\ gap' = [gap EXCEPT ![t] = draws - seededAt[t]]
        /\ IF r.err # "" THEN Fail(t, r.err, line) /\ UNCHANGED draws
           ELSE /\ pc' = [pc EXCEPT ![t] = next]
                /\ draws' = draws + 1
                /\ UNCHANGED <<err, errLine>>
        /\ UNCHANGED <<image, dims, op, pixels, message, seed, size, result,
                       calls, seededAt, seededWith, encRec, codec>>

EncodeSample(t) ==
    /\ pc[t] = "enc_sample"
    /\ Sample(t, "enc_payload", 75)

\* encode, lines 76-80: write the message, return the image
EncodePayload(t) ==
    /\ pc[t] = "enc_payload"
    /\ LET w == WriteBytes(pixels[t], message[t], locations[t], 0)
       IN  /\ pixels' = [pixels EXCEPT ![t] = w.pixels]
           /\ Fail(t, w.err, w.line)
           /\ encRec' = [encRec EXCEPT ![t] =
                           IF w.err = ""
                           THEN [ok |-> TRUE, seed |-> seed[t], locs |-> locations[t],
                                 msg |-> message[t], at |-> draws]
                           ELSE @]
    /\ UNCHANGED <<image, dims, rng, op, message, seed, size, locations, result,
                   calls, draws, seededAt, gap, seededWith, codec>>

\* decode, lines 82-113: convert, load, read and check the metadata
DecodeStart(t) ==
    /\ Begin(t, "decode", <<>>)
    /\ LET h == read_header(Input(t), dims[t])
       IN  /\ seed' = [seed EXCEPT ![t] = h.seed]
           /\ size' = [size EXCEPT ![t] = h.size]
           /\ IF h.err # "" THEN Fail(t, h.err, h.line)
              ELSE /\ pc' = [pc EXCEPT ![t] = "dec_seed"]
                   /\ err' = [err EXCEPT ![t] = ""]
                   /\ errLine' = [errLine EXCEPT ![t] = 0]

decode_seed_keeps_state(s, bytes) == s

\* decode, line 116: random.seed(seed)
decode_seed(s, bytes) == random_seed(bytes)

DecodeSeed(t) ==
    /\ pc[t] = "dec_seed"
    /\ rng' = decode_seed(rng, seed[t])
    /\ seededWith' = [seededWith EXCEPT ![t] = seed[t]]
    /\ seededAt' = [seededAt EXCEPT ![t] = draws]
    /\ pc' = [pc EXCEPT ![t] = "dec_sample"]
    /\ UNCHANGED <<image, dims, op, pixels, message, seed, size, locations, result, err,
                   errLine, calls, draws, gap, encRec, codec>>

DecodeSample(t) ==
    /\ pc[t] = "dec_sample"
    /\ Sample(t, "dec_read", 117)

\* decode, lines 119-125: read size bytes off the drawn locations
DecodeRead(t) ==
    /\ pc[t] = "dec_read"
    /\ LET m == ReadBytes(pixels[t], locations[t], 0, size[t], 0)
       IN  /\ result' = [result EXCEPT ![t] = m.bytes]
           /\ Fail(t, m.err, m.line)
    /\ UNCHANGED <<image, dims, rng, op, pixels, message, seed, size, locations,
                   calls, draws, seededAt, gap, seededWith, encRec, codec>>

\* one call at a time (the program as written: single-threaded)
Alone(t) == \A u \in Threads \ {t} : Ready(u)

SeqEncodeStart == \E t \in Threads : \E msg \in Messages(t) : calls < MaxCalls /\ Alone(t) /\ EncodeStart(t, msg)
SeqDecodeStart == \E t \in Threads : calls < MaxCalls /\ Alone(t) /\ DecodeStart(t)
DoEncodeSeed == \E t \in Threads : EncodeSeed(t)
DoEncodeHeader == \E t \in Threads : EncodeHeader(t)
DoEncodeSample == \E t \in Threads : EncodeSample(t)
DoEncodePayload == \E t \in Threads : EncodePayload(t)
DoDecodeSeed == \E t \in Threads : DecodeSeed(t)
DoDecodeSample == \E t \in Threads : DecodeSample(t)
DoDecodeRead == \E t \in Threads : DecodeRead(t)

Next ==
    \/ SeqEncodeStart
    \/ SeqDecodeStart
    \/ DoEncodeSeed
    \/ DoEncodeHeader
    \/ DoEncodeSample
    \/ DoEncodePayload
    \/ DoDecodeSeed
    \/ DoDecodeSample
    \/ DoDecodeRead

Spec == Init /\ [][Next]_vars

\* ------------------------------------------- interleaved calls (threads)
\* Two threads of one interpreter, each calling encode / decode on its own
\* image; the interpreter may switch threads between any two steps.
ConcDim == <<5, 6>>

InitConc ==
    /\ dims = [t \in Threads |-> ConcDim]
    /\ \E i1 \in {Mixed(ConcDim), WithHeader(ConcDim, <<144, 191, 1, 2, 3, 4, 0, 0, 0, 0>>),
                  WithHeader(ConcDim, <<144, 191, 9, 8, 7, 6, 1, 0, 0, 0>>)} :
         image = (1 :> i1) @@ (2 :> Black(ConcDim))
    /\ InitCalls
    /\ codec = IdleCodec

ConcEncodeStart == \E t \in Threads : \E msg \in Messages(t) : calls < MaxConcCalls /\ EncodeStart(t, msg)
ConcDecodeStart == \E t \in Threads : calls < MaxConcCalls /\ DecodeStart(t)

NextConc ==
    \/ ConcEncodeStart
    \/ ConcDecodeStart
    \/ DoEncodeSeed
    \/ DoEncodeHeader
    \/ DoEncodeSample
    \/ DoEncodePayload
    \/ DoDecodeSeed
    \/ DoDecodeSample
    \/ DoDecodeRead

SpecConc == InitConc /\ [][NextConc]_vars

\* ------------------------------------------------- byte codec on its own
MaxLocs == 9
CodecDim == <<5, 6>>

\* n pairwise distinct slots: every step-th slot from start, wrapping round
\* (step is coprime to the number of slots)
Stride(d, start, step, n) ==
    LET spots == valid_spots(d)
    IN  [i \in 1..n |-> spots[((start + (i - 1) * step) % Len(spots)) + 1]]

CodecLocs ==
    {Stride(CodecDim, start, step, n) : start \in {0, 5}, step \in {1, 7, 89}, n \in 0..MaxLocs}

InitCodec ==
    /\ dims = [t \in Threads |-> CodecDim]
    /\ image = (1 :> Mixed(CodecDim)) @@ (2 :> Black(CodecDim))
    /\ InitCalls
    /\ \E b \in 0..255, l \in CodecLocs :
         codec = [pc |-> "init", byte |-> b, locs |-> l, out |-> -1, err |-> ""]

CodecFrame ==
    UNCHANGED <<image, dims, rng, pc, op, message, seed, size, locations, result, err,
                errLine, calls, draws, seededAt, gap, seededWith, encRec>>

\* write_byte(pixels, byte, locations)
CodecWrite ==
    /\ codec.pc = "init"
    /\ LET w == write_byte(pixels[1], codec.byte, codec.locs)
       IN  /\ pixels' = [pixels EXCEPT ![1] = w.pixels]
           /\ codec' = [codec EXCEPT !.pc = "written", !.err = w.err]
    /\ CodecFrame

\* read_byte(pixels, locations); out = -1 when it raised
CodecRead ==
    /\ codec.pc \in {"init", "written"}
    /\ LET r == read_byte(pixels[1], codec.locs)
       IN  codec' = [codec EXCEPT !.pc = IF codec.pc = "init" THEN "read" ELSE "written_read",
                                  !.out = IF r.err = "" THEN r.val ELSE -1,
                                  !.err = r.err]
    /\ UNCHANGED pixels
    /\ CodecFrame

NextCodec ==
    \/ CodecWrite
    \/ CodecRead

SpecCodec == InitCodec /\ [][NextCodec]_vars

\* ===================================================== properties
\* The canonical slot sequence in closed form: slot number i (from 0) of an
\* image of height H is (x, y, channel) with channel fastest, then y, then x.
CanonSlot(i, d) == <<i \div (3 * d[2]), (i \div 3) % d[2], i % 3>>
SlotIndex(slot, d) == (slot[1] * d[2] + slot[2]) * 3 + slot[3]
Channel(px, slot) == px[<<slot[1], slot[2]>>][slot[3] + 1]
Lsb(px, slot) == Channel(px, slot) % 2

\* byte spelled by the LSBs of canonical slots 8k .. 8k+7, first slot lowest
HeaderByte(px, d, k) ==
    Lsb(px, CanonSlot(8 * k, d)) + 2 * Lsb(px, CanonSlot(8 * k + 1, d))
    + 4 * Lsb(px, CanonSlot(8 * k + 2, d)) + 8 * Lsb(px, CanonSlot(8 * k + 3, d))
    + 16 * Lsb(px, CanonSlot(8 * k + 4, d)) + 32 * Lsb(px, CanonSlot(8 * k + 5, d))
    + 64 * Lsb(px, CanonSlot(8 * k + 6, d)) + 128 * Lsb(px, CanonSlot(8 * k + 7, d))

HeaderBytes(px, d) == [k \in 1..10 |-> HeaderByte(px, d, k - 1)]
LittleEndian4(n) == [j \in 1..4 |-> (n \div Pow2(8 * (j - 1))) % 256]
AllSlots(d) == {CanonSlot(i, d) : i \in 0..(available(d) - 1)}
EncodeOk(t) == op[t] = "encode" /\ pc[t] = "done" /\ err[t] = ""
DecodeOk(t) == op[t] = "decode" /\ pc[t] = "done" /\ err[t] = ""

\* C3 - Header rejection: a decode call on an image whose first canonical
\* byte is not 0x90, or whose second is not 0xBF, has ended in the assertion
\* failure of the magic check (line 98 or 101), with no payload, without ever
\* having seeded the generator or drawn a slot.
C3_HeaderRejection ==
    \A t \in Threads :
        ( /\ op[t] = "decode"
          /\ available(dims[t]) >= 16
          /\ \/ HeaderByte(pixels[t], dims[t], 0) # 144
             \/ HeaderByte(pixels[t], dims[t], 1) # 191 )
        => /\ pc[t] = "done"
           /\ err[t] = "AssertionError"
           /\ errLine[t] \in {98, 101}
           /\ result[t] = <<>>
           /\ seededWith[t] = <<>>
           /\ locations[t] = <<>>
           /\ gap[t] = 0

\* a decode rejected on the second magic byte although the first one matched
C3_Witness ==
    \E t \in Threads :
        /\ op[t] = "decode" /\ pc[t] = "done"
        /\ HeaderByte(pixels[t], dims[t], 0) = 144
        /\ HeaderByte(pixels[t], dims[t], 1) # 191
        /\ err[t] = "AssertionError" /\ errLine[t] = 101

\* C4 - Non-header isolation: at every point of an encode call, each channel
\* keeps its 7 high bits, and a channel whose value differs from the input
\* image is one of the first 80 canonical slots or one of the first size*8
\* drawn slots; the (size*8+1)-th drawn slot is never changed.
C4_NonHeaderIsolation ==
    \A t \in Threads :
        op[t] = "encode" =>
            \A slot \in AllSlots(dims[t]) :
                /\ Channel(pixels[t], slot) \div 2 = Channel(image[t], slot) \div 2
                /\ Channel(pixels[t], slot) # Channel(image[t], slot)
                   => \/ SlotIndex(slot, dims[t]) < 80
                      \/ \E j \in 1..Min(size[t] * 8, Len(locations[t])) : locations[t][j] = slot

\* a finished encode of a non-empty payload that changed a header slot and a
\* drawn payload slot
C4_Witness ==
    \E t \in Threads :
        /\ EncodeOk(t) /\ size[t] >= 1
        /\ Len(locations[t]) = size[t] * 8 + 1
        /\ \E j \in 1..(size[t] * 8) :
             Channel(pixels[t], locations[t][j]) # Channel(image[t], locations[t][j])
        /\ \E i \in 0..79 :
             Channel(pixels[t], CanonSlot(i, dims[t])) # Channel(image[t], CanonSlot(i, dims[t]))

\* C5 - Persisted header layout: once encode has written the header, and
\* still after the payload writes of a successful encode, the LSBs of the
\* first 80 canonical slots spell 0x90, 0xBF, the 4 bytes the call seeded the
\* generator with, and the payload size as 4 little-endian bytes.
C5_PersistedHeader ==
    \A t \in Threads :
        (op[t] = "encode" /\ (pc[t] \in {"enc_sample", "enc_payload"} \/ EncodeOk(t)))
        => /\ Len(seededWith[t]) = 4
           /\ size[t] = Len(message[t])
           /\ HeaderBytes(pixels[t], dims[t])
                = <<144, 191>> \o seededWith[t] \o LittleEndian4(size[t])

\* a successful encode of a one-byte payload on an image with W, H > 1
C5_Witness ==
    \E t \in Threads :
        /\ EncodeOk(t) /\ size[t] = 1 /\ dims[t][1] > 1 /\ dims[t][2] > 1
        /\ HeaderBytes(pixels[t], dims[t]) = <<144, 191>> \o seed[t] \o <<1, 0, 0, 0>>

\* C8 - Reproducible draw: a decode of an image that a successful encode
\* produced does not fail, seeds the generator with the encoder's seed and
\* draws, from the slots after the first 80, the same size*8+1 slots in the
\* same order; in encode and in decode no draw is made on the generator
\* between the call's seeding and its sampling.
C8_ReproducibleDraw ==
    \A t \in Threads :
        /\ (op[t] = "decode" /\ encRec[t].ok /\ pc[t] = "done") => err[t] = ""
        /\ (op[t] = "decode" /\ encRec[t].ok /\ pc[t] \in {"dec_read", "done"})
           => /\ seededWith[t] = encRec[t].seed
              /\ locations[t] = encRec[t].locs
              /\ Len(locations[t]) = 8 * Len(encRec[t].msg) + 1
              /\ \A j \in 1..Len(locations[t]) : SlotIndex(locations[t][j], dims[t]) >= 80
        /\ (pc[t] \in {"enc_payload", "dec_read"} \/ EncodeOk(t) \/ DecodeOk(t)) => gap[t] = 0

\* a decode of an encoded image, with a complete encode call of the other
\* thread between the encode and the decode
C8_Witness ==
    \E t \in Threads, u \in Threads :
        /\ t # u
        /\ DecodeOk(t) /\ encRec[t].ok /\ Len(encRec[t].msg) = 1
        /\ locations[t] = encRec[t].locs
        /\ EncodeOk(u)
        /\ encRec[t].at < seededAt[u]
        /\ seededAt[u] <= seededAt[t]

\* C10 - Byte codec: after write_byte(b, slots) on 8 distinct slots the LSB
\* of slot i is bit i of b, and read_byte on the same slots returns b;
\* read_byte on a list that does not have 8 slots fails its assertion and
\* returns nothing.
C10_ByteCodec ==
    /\ (codec.pc \in {"written", "written_read"} /\ Len(codec.locs) = 8)
       => /\ \A i \in 0..7 : Lsb(pixels[1], codec.locs[i + 1]) = (codec.byte \div Pow2(i)) % 2
          /\ \A slot \in AllSlots(dims[1]) :
                Channel(pixels[1], slot) \div 2 = Channel(image[1], slot) \div 2
    /\ (codec.pc = "written_read" /\ Len(codec.locs) = 8)
       => codec.out = codec.byte /\ codec.err = ""
    /\ (codec.pc \in {"read", "written_read"} /\ Len(codec.locs) # 8)
       => codec.out = -1 /\ codec.err = "AssertionError"

\* 0x41 (not a bit palindrome) written to 8 non-consecutive slots, read back
C10_Witness ==
    /\ codec.pc = "written_read"
    /\ codec.byte = 65
    /\ Len(codec.locs) = 8
    /\ codec.locs[2] # CanonSlot(SlotIndex(codec.locs[1], dims[1]) + 1, dims[1])
    /\ codec.out = 65

\* C1 - Round trip: an encode call on an image with W*H*3 > size*8 + 72
\* completes without error, and decoding the image it returns yields exactly
\* the payload.
C1_RoundTrip ==
    \A t \in Threads :
        ( /\ op[t] = "encode"
          /\ pc[t] = "done"
          /\ available(dims[t]) > Len(message[t]) * 8 + 72 )
        => /\ err[t] = ""
           /\ decode(pixels[t], dims[t]).err = ""
           /\ decode(pixels[t], dims[t]).bytes = message[t]

\* C2 - Capacity boundary: a finished encode call failed with
\* NotEnoughValuesException if size*8 + 72 = W*H*3, and succeeded, header and
\* whole payload written, if size*8 + 73 <= W*H*3.
C2_CapacityBoundary ==
    \A t \in Threads :
        (op[t] = "encode" /\ pc[t] = "done")
        => /\ Len(message[t]) * 8 + 72 = available(dims[t])
              => err[t] = "NotEnoughValuesException"
           /\ Len(message[t]) * 8 + 73 <= available(dims[t])
              => /\ err[t] = ""
                 /\ Len(locations[t]) = Len(message[t]) * 8 + 1

\* C9 - Decode outcome: a finished decode call on an image that holds a whole
\* header with magic 0x90, 0xBF and length field n failed the capacity
\* assertion (line 113) if W*H*3 <= n*8 + 64, and otherwise drew n*8 + 1
\* slots and returned exactly n bytes without any failure.
C9_DecodeOutcome ==
    \A t \in Threads :
        ( /\ op[t] = "decode"
          /\ pc[t] = "done"
          /\ available(dims[t]) >= 80
          /\ HeaderByte(pixels[t], dims[t], 0) = 144
          /\ HeaderByte(pixels[t], dims[t], 1) = 191 )
        => LET n == HeaderByte(pixels[t], dims[t], 6) + 256 * HeaderByte(pixels[t], dims[t], 7)
                    + 65536 * HeaderByte(pixels[t], dims[t], 8)
                    + 16777216 * HeaderByte(pixels[t], dims[t], 9)
           IN  /\ available(dims[t]) <= n * 8 + 64
                  => err[t] = "AssertionError" /\ errLine[t] = 113
               /\ available(dims[t]) > n * 8 + 64
                  => /\ err[t] = ""
                     /\ Len(locations[t]) = n * 8 + 1
                     /\ Len(result[t]) = n

\* C6 - Independence of interleaved calls: whatever the other thread does
\* between a call's steps, the slots the call draws are those its own seed
\* and its own image's dimensions determine, an image returned by encode
\* decodes to the payload, and decode returns what it returns when run alone.
C6_Independence ==
    \A t \in Threads :
        /\ (pc[t] \in {"enc_payload", "dec_read"} \/ EncodeOk(t) \/ DecodeOk(t))
           => locations[t]
                = random_sample(random_seed(seed[t]), candidates(dims[t]), size[t] * 8 + 1).locs
        /\ EncodeOk(t)
           => /\ decode(pixels[t], dims[t]).err = ""
              /\ decode(pixels[t], dims[t]).bytes = message[t]
        /\ (op[t] = "decode" /\ pc[t] = "done")
           => /\ err[t] = decode(pixels[t], dims[t]).err
              /\ result[t] = decode(pixels[t], dims[t]).bytes

\* C7 - Seed freshness: when an encode call is about to pick its seed, the
\* seed is not determined by the state the preceding calls left behind: for
\* some seed byte, the call can pick one value and can also pick another.
C7_SeedFreshness ==
    \A t \in Threads :
        pc[t] = "enc_seed"
        => \E i \in 1..4 :
             \E b \in 0..255 :
                /\ ENABLED (EncodeSeed(t) /\ seed'[t][i] = b)
                /\ ENABLED (EncodeSeed(t) /\ seed'[t][i] # b)

====
